---- MODULE Spec2Model ----
(***************************************************************************)
(* Model of pyu2f/hid/openbsd.py: the OpenBSD raw HID backend.             *)
(*   - ReadReportDescriptor: the report descriptor interpreter (libusbhid) *)
(*   - OpenBSDHidDevice.Enumerate: the generator scanning /dev for uhid*   *)
(*   - OpenBSDHidDevice.__init__/Read/Write/Get*ReportDataLength           *)
(* Python exceptions are modelled by the name of their class; "none" is    *)
(* normal completion.  Text is a sequence of code points, a file name a    *)
(* sequence of one-character strings, a byte buffer a sequence of 0..255.  *)
(***************************************************************************)
EXTENDS Integers, Sequences, FiniteSets, TLC

(* ------------------------------ bounds --------------------------------- *)
\* number of nodes in the device directory
MaxDevs == 3
\* model width of the NUL-padded string buffers of UsbDeviceInfo
BufLen == 4
\* number of Read/Write calls followed on one transport
MaxOps == 2

(* ------------------------- unset attribute values ----------------------- *)
\* Python None for an integer attribute
None == -1
\* Python None for a text attribute
NoneStr == <<-1>>
\* Python None for the path attribute
NonePath == <<"None">>

(* ------------------------------ text helpers ---------------------------- *)
\* mutant of StartsWith: at most the first two characters are compared
StartsWith_TwoChars(s, p) ==
    LET n == IF Len(p) < 2 THEN Len(p) ELSE 2
    IN /\ Len(s) >= n
       /\ SubSeq(s, 1, n) = SubSeq(p, 1, n)

\* str.startswith
StartsWith(s, p) ==
    /\ Len(s) >= Len(p)
    /\ SubSeq(s, 1, Len(p)) = p

\* os.path.join(a, b) for two components
PathJoin(a, b) ==
    IF StartsWith(b, <<"/">>) THEN b
    ELSE IF a = <<>> \/ a[Len(a)] = "/" THEN a \o b
    ELSE a \o <<"/">> \o b

\* value of a ctypes c_char array field: the bytes before the first NUL
RECURSIVE CField(_)
CField(buf) ==
    IF buf = <<>> \/ Head(buf) = 0 THEN <<>>
    ELSE <<Head(buf)>> \o CField(Tail(buf))

\* continuation byte of a UTF-8 sequence
IsCont(b) == b >= 128 /\ b <= 191

\* bytes.decode('utf-8') (strict): [ok, text]; ok = FALSE is UnicodeDecodeError
RECURSIVE Utf8Decode(_)
Utf8Decode(bs) ==
    IF bs = <<>> THEN [ok |-> TRUE, text |-> <<>>]
    ELSE
      LET b1 == bs[1]
          n  == IF b1 < 128 THEN 1
                ELSE IF b1 >= 194 /\ b1 <= 223 THEN 2
                ELSE IF b1 >= 224 /\ b1 <= 239 THEN 3
                ELSE IF b1 >= 240 /\ b1 <= 244 THEN 4
                ELSE 0
          lo2 == IF b1 = 224 THEN 160 ELSE IF b1 = 240 THEN 144 ELSE 128
          hi2 == IF b1 = 237 THEN 159 ELSE IF b1 = 244 THEN 143 ELSE 191
          wellFormed ==
              /\ n > 0
              /\ Len(bs) >= n
              /\ n >= 2 => (bs[2] >= lo2 /\ bs[2] <= hi2)
              /\ \A k \in 3..n : IsCont(bs[k])
          cp == IF n = 1 THEN b1
                ELSE IF n = 2 THEN (b1 - 192) * 64 + (bs[2] - 128)
                ELSE IF n = 3 THEN (b1 - 224) * 4096 + (bs[2] - 128) * 64
                                   + (bs[3] - 128)
                ELSE (b1 - 240) * 262144 + (bs[2] - 128) * 4096
                     + (bs[3] - 128) * 64 + (bs[4] - 128)
      IN IF ~wellFormed THEN [ok |-> FALSE, text |-> <<>>]
         ELSE LET rest == Utf8Decode(SubSeq(bs, n + 1, Len(bs)))
              IN IF rest.ok THEN [ok |-> TRUE, text |-> <<cp>> \o rest.text]
                 ELSE rest

\* a text buffer of the device info structure: bs NUL-padded to BufLen
RECURSIVE Pad(_)
Pad(bs) == IF Len(bs) >= BufLen THEN SubSeq(bs, 1, BufLen)
           ELSE Pad(bs \o <<0>>)

(* --------------------------- device descriptor -------------------------- *)
\* base.DeviceDescriptor(): a fresh descriptor
DeviceDescriptor ==
    [ path |-> NonePath,
      vendor_id |-> None, vendor_string |-> NoneStr,
      product_id |-> None, product_string |-> NoneStr,
      usage_page |-> None, usage |-> None,
      internal_max_in_report_len |-> 0,
      internal_max_out_report_len |-> 0 ]

\* DeviceDescriptor.ToPublicDict: the attributes not named internal_*
ToPublicDict(desc) ==
    [ path |-> desc.path,
      vendor_id |-> desc.vendor_id, vendor_string |-> desc.vendor_string,
      product_id |-> desc.product_id, product_string |-> desc.product_string,
      usage_page |-> desc.usage_page, usage |-> desc.usage ]

(* ------------------------ report descriptor parsing --------------------- *)
\* mutant of CatchesOSError: the clause names ValueError
CatchesOSError_ValueError(e) == e = "UnicodeDecodeError"

\* except OSError: does the clause catch an exception of class e
CatchesOSError(e) == e = "OSError"

\* the class raised by `raise Error(...)`: the module binds no name Error,
\* so evaluating the name raises NameError
RaiseError == "NameError"

\* count of the occurrences of call c in a log of native calls
RECURSIVE Count(_, _)
Count(log, c) ==
    IF log = <<>> THEN 0
    ELSE (IF Head(log) = c THEN 1 ELSE 0) + Count(Tail(log), c)

\* bitwise and of two naturals
RECURSIVE BitAnd(_, _)
BitAnd(a, b) ==
    IF a = 0 \/ b = 0 THEN 0
    ELSE (a % 2) * (b % 2) + 2 * BitAnd(a \div 2, b \div 2)

\* a c_uint32 is held as its four bytes, most significant first
U32And(x, m) == [k \in 1..4 |-> BitAnd(x[k], m[k])]
\* mutant of U32Shr16: the shift is by 8 bits
U32Shr16_By8(x) == <<0, x[1], x[2], x[3]>>
U32Shr16(x) == <<0, 0, x[1], x[2]>>
U32Int16(x) == x[3] * 256 + x[4]
Mask_ffff0000 == <<255, 255, 0, 0>>
Mask_0000ffff == <<0, 0, 255, 255>>
U32Zero == <<0, 0, 0, 0>>

\* mutant of ReadReportDescriptor: the report lengths are stored after the
\* first item has been fetched
ReadReportDescriptor_LengthsAfterItem(hw, desc) ==
    IF ~hw.rdesc THEN
        [ desc |-> desc, exc |-> "NameError",
          calls |-> <<"hid_get_report_desc">> ]
    ELSE IF ~hw.parse THEN
        [ desc |-> desc, exc |-> "NameError",
          calls |-> <<"hid_get_report_desc", "hid_start_parse",
                      "hid_dispose_report_desc">> ]
    ELSE
      LET d1 == [desc EXCEPT !.internal_max_in_report_len = hw.inLen,
                             !.internal_max_out_report_len = hw.outLen]
          hiditem_usage == IF hw.itemRes > 0 THEN hw.itemUsage ELSE U32Zero
          pre == <<"hid_get_report_desc", "hid_start_parse",
                   "hid_get_item", "hid_report_size", "hid_report_size">>
      IN IF hw.itemRes < 0 THEN
             [ desc |-> desc, exc |-> "NameError",
               calls |-> <<"hid_get_report_desc", "hid_start_parse",
                           "hid_get_item", "hid_dispose_report_desc">> ]
         ELSE
             [ desc |-> [d1 EXCEPT
                          !.usage_page = U32Int16(U32Shr16(
                                 U32And(hiditem_usage, Mask_ffff0000))),
                          !.usage = U32Int16(
                                 U32And(hiditem_usage, Mask_0000ffff))],
               exc |-> "none",
               calls |-> pre \o <<"hid_dispose_report_desc">> ]

\* mutant of ReadReportDescriptor: the first-item failure path raises
\* without disposing of the report descriptor
ReadReportDescriptor_LeakOnItemError(hw, desc) ==
    IF ~hw.rdesc THEN
        [ desc |-> desc, exc |-> "NameError",
          calls |-> <<"hid_get_report_desc">> ]
    ELSE IF ~hw.parse THEN
        [ desc |-> desc, exc |-> "NameError",
          calls |-> <<"hid_get_report_desc", "hid_start_parse",
                      "hid_dispose_report_desc">> ]
    ELSE
      LET d1 == [desc EXCEPT !.internal_max_in_report_len = hw.inLen,
                             !.internal_max_out_report_len = hw.outLen]
          hiditem_usage == IF hw.itemRes > 0 THEN hw.itemUsage ELSE U32Zero
          pre == <<"hid_get_report_desc", "hid_start_parse",
                   "hid_report_size", "hid_report_size", "hid_get_item">>
      IN IF hw.itemRes < 0 THEN
             [ desc |-> d1, exc |-> "NameError", calls |-> pre ]
         ELSE
             [ desc |-> [d1 EXCEPT
                          !.usage_page = U32Int16(U32Shr16(
                                 U32And(hiditem_usage, Mask_ffff0000))),
                          !.usage = U32Int16(
                                 U32And(hiditem_usage, Mask_0000ffff))],
               exc |-> "none",
               calls |-> pre \o <<"hid_dispose_report_desc">> ]

\* ReadReportDescriptor(device_fd, desc) against a device whose libusbhid
\* behaviour is hw: the descriptor as left by the call, the exception it
\* ends with, and the libusbhid calls it made, in order
ReadReportDescriptor(hw, desc) ==
    IF ~hw.rdesc THEN
        [ desc |-> desc, exc |-> RaiseError,
          calls |-> <<"hid_get_report_desc">> ]
    ELSE IF ~hw.parse THEN
        [ desc |-> desc, exc |-> RaiseError,
          calls |-> <<"hid_get_report_desc", "hid_start_parse",
                      "hid_dispose_report_desc">> ]
    ELSE
      LET d1 == [desc EXCEPT !.internal_max_in_report_len = hw.inLen,
                             !.internal_max_out_report_len = hw.outLen]
          \* HidItem() is zero-filled; hid_get_item fills it for res > 0
          hiditem_usage == IF hw.itemRes > 0 THEN hw.itemUsage ELSE U32Zero
          pre == <<"hid_get_report_desc", "hid_start_parse",
                   "hid_report_size", "hid_report_size", "hid_get_item">>
      IN IF hw.itemRes < 0 THEN
             [ desc |-> d1, exc |-> RaiseError,
               calls |-> pre \o <<"hid_dispose_report_desc">> ]
         ELSE
             [ desc |-> [d1 EXCEPT
                          !.usage_page = U32Int16(U32Shr16(
                                 U32And(hiditem_usage, Mask_ffff0000))),
                          !.usage = U32Int16(
                                 U32And(hiditem_usage, Mask_0000ffff))],
               exc |-> "none",
               calls |-> pre \o <<"hid_dispose_report_desc">> ]

(* ------------------------------ the devices ----------------------------- *)
\* a healthy token: what the kernel and libusbhid report for it
\* (udi_vendor "Yu", udi_product "K" U+00E9; combined usage 0xF1D00001)
Token ==
    [ canOpen |-> TRUE, ioctlOk |-> TRUE,
      udi_vendorNo |-> 4176, udi_productNo |-> 1026,
      udi_vendor |-> Pad(<<89, 117>>), udi_product |-> Pad(<<75, 195, 169>>),
      rdesc |-> TRUE, parse |-> TRUE, inLen |-> 2, outLen |-> 1,
      itemRes |-> 1, itemUsage |-> <<241, 208, 0, 1>> ]

\* a second healthy device (empty vendor string, no output reports,
\* combined usage 0x00010006)
Keyboard ==
    [ Token EXCEPT !.udi_vendorNo = 1, !.udi_productNo = 65535,
                   !.udi_vendor = Pad(<<>>), !.udi_product = Pad(<<65>>),
                   !.inLen = 1, !.outLen = 0, !.itemUsage = <<0, 1, 0, 6>> ]

\* the faults a single device can show while it is probed or opened
Faulty ==
    [ open      |-> [Token EXCEPT !.canOpen = FALSE],
      ioctl     |-> [Token EXCEPT !.ioctlOk = FALSE],
      vendor    |-> [Token EXCEPT !.udi_vendor = Pad(<<89, 255>>)],
      product   |-> [Token EXCEPT !.udi_product = Pad(<<195>>)],
      nordesc   |-> [Token EXCEPT !.rdesc = FALSE],
      noparse   |-> [Token EXCEPT !.parse = FALSE],
      itemerr   |-> [Token EXCEPT !.itemRes = -1],
      noitem    |-> [Token EXCEPT !.itemRes = 0] ]

FaultKinds == DOMAIN Faulty

\* file name of unit i of a driver
Digit(i) == <<"0", "1", "2", "3", "4", "5", "6", "7", "8", "9">>[i + 1]
DevName(stem, i) == stem \o <<Digit(i)>>

UhidStem == <<"u", "h", "i", "d">>
OtherStems == { <<"t", "t", "y", "U">>, <<"u", "h">> }

\* what a node of /dev can be: its driver stem, its hardware, and the
\* fault it has ("none" for a healthy one)
NodeKinds ==
    { [stem |-> UhidStem, hw |-> h, fault |-> "none"] : h \in {Token, Keyboard} }
    \cup { [stem |-> UhidStem, hw |-> Faulty[k], fault |-> k] : k \in FaultKinds }
    \cup { [stem |-> st, hw |-> Faulty["nordesc"], fault |-> "none"] :
              st \in OtherStems }

\* the listing of /dev made of the node kinds ks: node i is unit i-1 of
\* its driver
Listing(ks) ==
    [i \in 1..Len(ks) |-> [name |-> DevName(ks[i].stem, i - 1),
                           hw |-> ks[i].hw, fault |-> ks[i].fault]]

DevDir == <<"/", "d", "e", "v">>

(* -------------------------------- state --------------------------------- *)
VARIABLES
    devdir,     \* the nodes of /dev, in os.listdir order, with their hardware
    openFds,    \* the open OS handles: [fd, path, owner]
    closed,     \* the handles closed so far, in order
    rrdLog,     \* the ReadReportDescriptor calls made so far: [hw, arg, res]
    epc,        \* position of the Enumerate generator
    elist,      \* the listing the generator iterates over
    eidx,       \* index in elist of the candidate at hand
    ef,         \* fd of the probe handle f, 0 when there is none
    yielded,    \* the records the generator has yielded, in order
    eexc,       \* the exception the generator died of, "none" otherwise
    tpc,        \* the transport object: "none", "open", "failed", "dropped"
    tpath,      \* path given to the constructor
    tdev,       \* self.dev, 0 while unset
    tdesc,      \* self.desc
    texc,       \* exception of the last constructor, Read or Write call
    lastIn,     \* last result of GetInReportDataLength, None before a call
    lastOut,    \* last result of GetOutReportDataLength, None before a call
    lastRead,   \* result of the last Read that returned
    oslog,      \* the OS reads and writes on handles, in order
    apilog,     \* the Read and Write calls made on the transport, in order
    stdout,     \* the lines written to standard output (code points), in order
    ecalls,     \* number of Enumerate() calls made so far
    prevdir     \* /dev as it was when the previous Enumerate() call scanned

vars == << devdir, openFds, closed, rrdLog, epc, elist, eidx, ef, yielded,
           eexc, tpc, tpath, tdev, tdesc, texc, lastIn, lastOut, lastRead,
           oslog, apilog, stdout, ecalls, prevdir >>

evars == << epc, elist, eidx, ef, yielded, eexc >>
tvars == << tpc, tpath, tdev, tdesc, texc, lastIn, lastOut, lastRead, oslog,
           apilog, stdout >>
hvars == << ecalls, prevdir >>

(* ------------------------------ the OS ---------------------------------- *)
\* the lowest descriptor number not in use
LowestFd(fds) ==
    CHOOSE n \in 3..(3 + Cardinality(fds)) :
        /\ \A h \in fds : h.fd # n
        /\ \A m \in 3..(n - 1) : \E h \in fds : h.fd = m

\* the node a path names, as a set (empty when the path does not exist)
NodesAt(path) ==
    { devdir[i] : i \in { j \in 1..Len(devdir) :
                            PathJoin(DevDir, devdir[j].name) = path } }

\* open()/os.open(): can the path be opened
CanOpen(path) == \E nd \in NodesAt(path) : nd.hw.canOpen

\* hardware behind an existing path
HwAt(path) == (CHOOSE nd \in NodesAt(path) : TRUE).hw

InitCommon ==
    /\ openFds = {}
    /\ closed = <<>>
    /\ rrdLog = <<>>
    /\ epc = "idle"
    /\ elist = <<>>
    /\ eidx = 0
    /\ ef = 0
    /\ yielded = <<>>
    /\ eexc = "none"
    /\ tpc = "none"
    /\ tpath = NonePath
    /\ tdev = 0
    /\ tdesc = DeviceDescriptor
    /\ texc = "none"
    /\ lastIn = None
    /\ lastOut = None
    /\ lastRead = <<>>
    /\ oslog = <<>>
    /\ apilog = <<>>
    /\ stdout = <<>>
    /\ ecalls = 1
    /\ prevdir = <<>>

Init ==
    /\ \E n \in 0..MaxDevs : \E ks \in [1..n -> NodeKinds] :
          devdir = Listing(ks)
    /\ InitCommon

(* ---------------------------- Enumerate --------------------------------- *)
\* the body of the with statement for one candidate: the metadata ioctl,
\* the descriptor fields, ReadReportDescriptor
Probe(path, hw) ==
    LET desc0 == DeviceDescriptor
        v == Utf8Decode(CField(hw.udi_vendor))
        p == Utf8Decode(CField(hw.udi_product))
    IN IF ~hw.ioctlOk THEN
           [ desc |-> desc0, exc |-> "OSError", rrd |-> <<>> ]
       ELSE IF ~v.ok THEN
           [ desc |-> [desc0 EXCEPT !.vendor_id = hw.udi_vendorNo],
             exc |-> "UnicodeDecodeError", rrd |-> <<>> ]
       ELSE IF ~p.ok THEN
           [ desc |-> [desc0 EXCEPT !.vendor_id = hw.udi_vendorNo,
                                    !.vendor_string = v.text,
                                    !.product_id = hw.udi_productNo],
             exc |-> "UnicodeDecodeError", rrd |-> <<>> ]
       ELSE
         LET d == [desc0 EXCEPT !.vendor_id = hw.udi_vendorNo,
                                !.vendor_string = v.text,
                                !.product_id = hw.udi_productNo,
                                !.product_string = p.text,
                                !.path = path]
             r == ReadReportDescriptor(hw, d)
         IN [ desc |-> r.desc, exc |-> r.exc,
              rrd |-> << [hw |-> hw, arg |-> d, res |-> r] >> ]

\* where the generator goes when exception e leaves the try block
AfterException(e) == IF CatchesOSError(e) THEN "loop" ELSE "raised"

\* mutant of EnumStart: the listing of the first call is kept for later calls
EnumStart_KeepsListing ==
    /\ epc = "idle"
    /\ epc' = "loop"
    /\ elist' = IF ecalls > 1 THEN [i \in 1..Len(prevdir) |-> prevdir[i].name]
                ELSE [i \in 1..Len(devdir) |-> devdir[i].name]
    /\ eidx' = 1
    /\ UNCHANGED << hvars, devdir, openFds, closed, rrdLog, ef, yielded, eexc, tvars >>

\* the first next() on Enumerate(): os.listdir('/dev/')
EnumStart ==
    /\ epc = "idle"
    /\ epc' = "loop"
    /\ elist' = [i \in 1..Len(devdir) |-> devdir[i].name]
    /\ eidx' = 1
    /\ UNCHANGED << hvars, devdir, openFds, closed, rrdLog, ef, yielded, eexc, tvars >>

\* the loop head: the listing is exhausted
EnumFinish ==
    /\ epc = "loop"
    /\ eidx > Len(elist)
    /\ epc' = "done"
    /\ UNCHANGED << hvars, devdir, openFds, closed, rrdLog, elist, eidx, ef, yielded,
                    eexc, tvars >>

\* the loop head: a node without the uhid prefix is passed over
EnumSkipName ==
    /\ epc = "loop"
    /\ eidx <= Len(elist)
    /\ ~StartsWith(elist[eidx], UhidStem)
    /\ eidx' = eidx + 1
    /\ UNCHANGED << hvars, devdir, openFds, closed, rrdLog, epc, elist, ef, yielded,
                    eexc, tvars >>

\* open(path) for a candidate
EnumOpen ==
    /\ epc = "loop"
    /\ eidx <= Len(elist)
    /\ StartsWith(elist[eidx], UhidStem)
    /\ LET path == PathJoin(DevDir, elist[eidx])
       IN IF CanOpen(path) THEN
              LET fd == LowestFd(openFds)
              IN /\ openFds' = openFds \cup
                        { [fd |-> fd, path |-> path, owner |-> "probe"] }
                 /\ ef' = fd
                 /\ epc' = "opened"
                 /\ UNCHANGED << eidx, eexc >>
          ELSE
              /\ epc' = AfterException("OSError")
              /\ eexc' = IF CatchesOSError("OSError") THEN "none" ELSE "OSError"
              /\ eidx' = IF CatchesOSError("OSError") THEN eidx + 1 ELSE eidx
              /\ UNCHANGED << openFds, ef >>
    /\ UNCHANGED << hvars, devdir, closed, rrdLog, elist, yielded, tvars >>

\* mutant of EnumProbe: the record is yielded inside the with statement, f
\* still open
EnumProbe_YieldInWith ==
    /\ epc = "opened"
    /\ LET path == PathJoin(DevDir, elist[eidx])
           r == Probe(path, HwAt(path))
       IN /\ rrdLog' = rrdLog \o r.rrd
          /\ IF r.exc = "none" THEN
                 /\ yielded' = Append(yielded, ToPublicDict(r.desc))
                 /\ epc' = "yield"
                 /\ UNCHANGED << openFds, closed, ef, eidx, eexc >>
             ELSE
                 /\ openFds' = { h \in openFds : h.fd # ef }
                 /\ closed' = closed \o << [fd |-> ef, owner |-> "probe"] >>
                 /\ ef' = 0
                 /\ epc' = AfterException(r.exc)
                 /\ eexc' = IF CatchesOSError(r.exc) THEN "none" ELSE r.exc
                 /\ eidx' = IF CatchesOSError(r.exc) THEN eidx + 1 ELSE eidx
                 /\ UNCHANGED yielded
    /\ UNCHANGED << hvars, devdir, elist, tvars >>

\* mutant of EnumProbe: f is closed at the end of the body only, so it stays
\* open when the body raises
EnumProbe_NoWith ==
    /\ epc = "opened"
    /\ LET path == PathJoin(DevDir, elist[eidx])
           r == Probe(path, HwAt(path))
       IN /\ rrdLog' = rrdLog \o r.rrd
          /\ IF r.exc = "none" THEN
                 /\ openFds' = { h \in openFds : h.fd # ef }
                 /\ closed' = closed \o << [fd |-> ef, owner |-> "probe"] >>
                 /\ ef' = 0
                 /\ yielded' = Append(yielded, ToPublicDict(r.desc))
                 /\ epc' = "yield"
                 /\ UNCHANGED << eidx, eexc >>
             ELSE
                 /\ epc' = AfterException(r.exc)
                 /\ eexc' = IF CatchesOSError(r.exc) THEN "none" ELSE r.exc
                 /\ eidx' = IF CatchesOSError(r.exc) THEN eidx + 1 ELSE eidx
                 /\ UNCHANGED << openFds, closed, ef, yielded >>
    /\ UNCHANGED << hvars, devdir, elist, tvars >>

\* the with body and its exit: f is closed whatever the body does; the
\* record is yielded after the with statement
EnumProbe ==
    /\ epc = "opened"
    /\ LET path == PathJoin(DevDir, elist[eidx])
           r == Probe(path, HwAt(path))
       IN /\ rrdLog' = rrdLog \o r.rrd
          /\ openFds' = { h \in openFds : h.fd # ef }
          /\ closed' = closed \o << [fd |-> ef, owner |-> "probe"] >>
          /\ ef' = 0
          /\ IF r.exc = "none" THEN
                 /\ yielded' = Append(yielded, ToPublicDict(r.desc))
                 /\ epc' = "yield"
                 /\ UNCHANGED << eidx, eexc >>
             ELSE
                 /\ epc' = AfterException(r.exc)
                 /\ eexc' = IF CatchesOSError(r.exc) THEN "none" ELSE r.exc
                 /\ eidx' = IF CatchesOSError(r.exc) THEN eidx + 1 ELSE eidx
                 /\ UNCHANGED yielded
    /\ UNCHANGED << hvars, devdir, elist, tvars >>

\* the consumer asks for the next record: the generator resumes after yield
EnumResume ==
    /\ epc = "yield"
    /\ epc' = "loop"
    /\ eidx' = eidx + 1
    /\ UNCHANGED << hvars, devdir, openFds, closed, rrdLog, elist, ef, yielded, eexc,
                    tvars >>

NextEnum ==
    \/ EnumStart
    \/ EnumFinish
    \/ EnumSkipName
    \/ EnumOpen
    \/ EnumProbe
    \/ EnumResume

Spec == Init /\ [][NextEnum]_vars

(* ----------------------------- the transport ---------------------------- *)
\* length bound of the packets given to Write
MaxPkt == 1
\* the byte values used in packets and reports
SomeBytes == {7, 200}

\* byte strings of length at most n
BytesUpTo(n) == UNION { [1..k -> SomeBytes] : k \in 0..n }

\* a path that names no node of /dev
NoSuchPath == PathJoin(DevDir, DevName(UhidStem, 9))

\* the paths handed to the constructor
OpenPaths ==
    { PathJoin(DevDir, devdir[i].name) : i \in 1..Len(devdir) }
    \cup { NoSuchPath }

\* the items bytearray() refuses: integers outside range(0, 256)
NonBytes == {256}

\* the byte string of length k given to Write: 7, 200, 7, ...
PacketOf(k) == [i \in 1..k |-> IF i % 2 = 1 THEN 7 ELSE 200]

\* the packets given to Write: one byte string of each length up to n, and
\* those followed by an item that is no byte
Packets(n) ==
    { PacketOf(k) : k \in 0..n }
    \cup { Append(PacketOf(k), v) : k \in 0..(n - 1), v \in NonBytes }

\* are all items of bs in range(0, 256)
IsBytes(bs) == \A k \in 1..Len(bs) : bs[k] \in 0..255

\* bytearray(packet) / bytearray(raw): [exc, val]; the items in order, or
\* ValueError when an item is not in range(0, 256)
ByteArray(bs) ==
    IF IsBytes(bs) THEN [exc |-> "none", val |-> bs]
    ELSE [exc |-> "ValueError", val |-> <<>>]

\* the code point of the hexadecimal digit d, in lower case
HexDigit(d) == IF d < 10 THEN 48 + d ELSE 87 + d

\* one byte in the repr of a bytearray, as code points: ' and \ behind a
\* backslash, tab, newline and return as \t \n \r, the other bytes outside
\* 32..126 as \xhh, the rest as themselves
ReprByte(b) ==
    IF b = 39 \/ b = 92 THEN << 92, b >>
    ELSE IF b = 9 THEN << 92, 116 >>
    ELSE IF b = 10 THEN << 92, 110 >>
    ELSE IF b = 13 THEN << 92, 114 >>
    ELSE IF b < 32 \/ b >= 127 THEN
        << 92, 120, HexDigit(b \div 16), HexDigit(b % 16) >>
    ELSE << b >>

RECURSIVE ReprBytes(_)
ReprBytes(bs) ==
    IF bs = <<>> THEN <<>> ELSE ReprByte(Head(bs)) \o ReprBytes(Tail(bs))

\* repr(out) of a bytearray, as code points: bytearray(b'...'), the literal
\* quoted with " (34) when it holds a ' (39) and no ", with ' otherwise
ByteArrayRepr(out) ==
    LET hasS == \E k \in 1..Len(out) : out[k] = 39
        hasD == \E k \in 1..Len(out) : out[k] = 34
        q == IF hasS /\ ~hasD THEN 34 ELSE 39
    IN << 98, 121, 116, 101, 97, 114, 114, 97, 121, 40, 98, q >>
       \o ReprBytes(out) \o << q, 41 >>

\* the line print(out) writes: the repr and a newline
OutLine(out) == ByteArrayRepr(out) \o << 10 >>

\* sys.stdout at a call of Write: usable, a closed file, or a pipe whose
\* reader is gone
StdoutStates == {"ok", "closed", "broken"}

\* the exception print() ends with on standard output in state so.  A closed
\* file refuses the write at once.  On a pipe whose reader is gone the line
\* goes into the buffer of sys.stdout and print() returns, unless this print
\* makes the buffer write to the descriptor (flushed: an unbuffered or
\* line-buffered stream, or a block buffer this line fills), which raises
\* BrokenPipeError.
StdoutExc(so, flushed) ==
    IF so = "closed" THEN "ValueError"
    ELSE IF so = "broken" /\ flushed THEN "OSError"
    ELSE "none"

\* mutant of Open: the failure of os.open is re-raised as Error(...)
Open_WrapsOpenError(path) ==
    /\ tpc = "none"
    /\ tpath' = path
    /\ IF ~CanOpen(path) THEN
           /\ tdesc' = [DeviceDescriptor EXCEPT !.path = path]
           /\ tpc' = "failed"
           /\ texc' = RaiseError
           /\ UNCHANGED << openFds, rrdLog, tdev >>
       ELSE
           LET fd == LowestFd(openFds)
               r == ReadReportDescriptor(HwAt(path),
                        [DeviceDescriptor EXCEPT !.path = path])
           IN /\ openFds' = openFds \cup
                     { [fd |-> fd, path |-> path, owner |-> "transport"] }
              /\ tdev' = fd
              /\ rrdLog' = Append(rrdLog, [hw |-> HwAt(path),
                        arg |-> [DeviceDescriptor EXCEPT !.path = path],
                        res |-> r])
              /\ tdesc' = r.desc
              /\ texc' = r.exc
              /\ tpc' = IF r.exc = "none" THEN "open" ELSE "failed"
    /\ UNCHANGED << hvars, apilog, stdout, devdir, closed, evars, lastIn, lastOut, lastRead, oslog >>

\* OpenBSDHidDevice(path)
Open(path) ==
    /\ tpc = "none"
    /\ tpath' = path
    /\ IF ~CanOpen(path) THEN
           \* os.open raises; self.desc.path is already set
           /\ tdesc' = [DeviceDescriptor EXCEPT !.path = path]
           /\ tpc' = "failed"
           /\ texc' = "OSError"
           /\ UNCHANGED << openFds, rrdLog, tdev >>
       ELSE
           LET fd == LowestFd(openFds)
               r == ReadReportDescriptor(HwAt(path),
                        [DeviceDescriptor EXCEPT !.path = path])
           IN /\ openFds' = openFds \cup
                     { [fd |-> fd, path |-> path, owner |-> "transport"] }
              /\ tdev' = fd
              /\ rrdLog' = Append(rrdLog, [hw |-> HwAt(path),
                        arg |-> [DeviceDescriptor EXCEPT !.path = path],
                        res |-> r])
              /\ tdesc' = r.desc
              /\ texc' = r.exc
              /\ tpc' = IF r.exc = "none" THEN "open" ELSE "failed"
    /\ UNCHANGED << hvars, apilog, stdout, devdir, closed, evars, lastIn, lastOut, lastRead, oslog >>

\* mutant of GetInReportDataLength: it returns the output length
GetInReportDataLength_ReturnsOut ==
    /\ tpc = "open"
    /\ lastIn' = tdesc.internal_max_out_report_len
    /\ UNCHANGED << hvars, apilog, stdout, devdir, openFds, closed, rrdLog, evars, tpc, tpath, tdev,
                    tdesc, texc, lastOut, lastRead, oslog >>

\* GetInReportDataLength()
GetInReportDataLength ==
    /\ tpc = "open"
    /\ lastIn' = tdesc.internal_max_in_report_len
    /\ UNCHANGED << hvars, apilog, stdout, devdir, openFds, closed, rrdLog, evars, tpc, tpath, tdev,
                    tdesc, texc, lastOut, lastRead, oslog >>

\* GetOutReportDataLength()
GetOutReportDataLength ==
    /\ tpc = "open"
    /\ lastOut' = tdesc.internal_max_out_report_len
    /\ UNCHANGED << hvars, apilog, stdout, devdir, openFds, closed, rrdLog, evars, tpc, tpath, tdev,
                    tdesc, texc, lastIn, lastRead, oslog >>

\* Write(packet); so is the state of sys.stdout, flushed tells whether the
\* print makes sys.stdout write to its descriptor, ok whether os.write
\* succeeds.  bytearray(packet), then print(out), then os.write(self.dev,
\* out): an exception of one step leaves the method before the next.
\* stdout keeps the lines print() has taken.
Write(packet, so, flushed, ok) ==
    /\ tpc = "open"
    /\ Len(apilog) < MaxOps
    /\ apilog' = Append(apilog, [call |-> "Write", arg |-> packet])
    /\ LET out == ByteArray(packet)
       IN IF out.exc # "none" THEN
              /\ so = "ok" /\ ok
              /\ texc' = out.exc
              /\ UNCHANGED << stdout, oslog >>
          ELSE IF StdoutExc(so, flushed) # "none" THEN
              /\ ok
              /\ texc' = StdoutExc(so, flushed)
              /\ UNCHANGED << stdout, oslog >>
          ELSE
              /\ stdout' = Append(stdout, OutLine(out.val))
              /\ oslog' = Append(oslog, [op |-> "write", fd |-> tdev,
                                         data |-> out.val,
                                         n |-> Len(out.val), ok |-> ok])
              /\ texc' = IF ok THEN "none" ELSE "OSError"
    /\ UNCHANGED << hvars, devdir, openFds, closed, rrdLog, evars, tpc, tpath, tdev,
                    tdesc, lastIn, lastOut, lastRead >>

\* mutant of Read: a short read is padded with zeros to the report length
Read_PadsToLength(raw, ok) ==
    /\ tpc = "open"
    /\ Len(apilog) < MaxOps
    /\ LET n == tdesc.internal_max_in_report_len
       IN /\ Len(raw) <= n
          /\ ~ok => raw = <<>>
          /\ oslog' = Append(oslog, [op |-> "read", fd |-> tdev,
                                     data |-> raw, n |-> n, ok |-> ok])
          /\ lastRead' = IF ok
                         THEN [k \in 1..n |-> IF k <= Len(raw) THEN raw[k] ELSE 0]
                         ELSE lastRead
    /\ apilog' = Append(apilog, [call |-> "Read", arg |-> <<>>])
    /\ texc' = IF ok THEN "none" ELSE "OSError"
    /\ UNCHANGED << hvars, stdout, devdir, openFds, closed, rrdLog, evars, tpc, tpath, tdev,
                    tdesc, lastIn, lastOut >>

\* mutant of Read: a failing os.read is caught and an empty list returned
Read_SwallowsError(raw, ok) ==
    /\ tpc = "open"
    /\ Len(apilog) < MaxOps
    /\ LET n == tdesc.internal_max_in_report_len
       IN /\ Len(raw) <= n
          /\ ~ok => raw = <<>>
          /\ oslog' = Append(oslog, [op |-> "read", fd |-> tdev,
                                     data |-> raw, n |-> n, ok |-> ok])
    /\ apilog' = Append(apilog, [call |-> "Read", arg |-> <<>>])
    /\ texc' = "none"
    /\ lastRead' = ByteArray(raw).val
    /\ UNCHANGED << hvars, stdout, devdir, openFds, closed, rrdLog, evars, tpc, tpath, tdev,
                    tdesc, lastIn, lastOut >>

\* Read(); the device delivers raw (at most the requested count), or
\* os.read fails
Read(raw, ok) ==
    /\ tpc = "open"
    /\ Len(apilog) < MaxOps
    /\ LET n == tdesc.internal_max_in_report_len
       IN /\ Len(raw) <= n
          /\ ~ok => raw = <<>>
          /\ oslog' = Append(oslog, [op |-> "read", fd |-> tdev,
                                     data |-> raw, n |-> n, ok |-> ok])
    /\ apilog' = Append(apilog, [call |-> "Read", arg |-> <<>>])
    /\ texc' = IF ok THEN "none" ELSE "OSError"
    /\ lastRead' = IF ok THEN ByteArray(raw).val ELSE lastRead
    /\ UNCHANGED << hvars, stdout, devdir, openFds, closed, rrdLog, evars, tpc, tpath, tdev,
                    tdesc, lastIn, lastOut >>

\* the transport is no longer needed and the object goes away; the class
\* defines no close, __del__ or __exit__, and self.dev is a plain integer
Drop ==
    /\ tpc = "open"
    /\ tpc' = "dropped"
    /\ UNCHANGED << hvars, apilog, stdout, devdir, openFds, closed, rrdLog, evars, tpath, tdev, tdesc,
                    texc, lastIn, lastOut, lastRead, oslog >>

NextTransport ==
    \/ \E path \in OpenPaths : Open(path)
    \/ GetInReportDataLength
    \/ GetOutReportDataLength
    \/ \E packet \in Packets(MaxPkt), so \in StdoutStates :
          \* flushed tells two outcomes apart on a broken pipe only
          \E flushed \in (IF so = "broken" THEN BOOLEAN ELSE {TRUE}),
             ok \in BOOLEAN :
             Write(packet, so, flushed, ok)
    \/ \E raw \in BytesUpTo(tdesc.internal_max_in_report_len), ok \in BOOLEAN :
          Read(raw, ok)
    \/ Drop

\* the node kinds a transport is opened on: the constructor issues no ioctl
\* and decodes no string, and Read and Write do not look at the usage, so
\* the faults of those steps are left to Enumerate
TransportKinds ==
    { k \in NodeKinds :
        k.fault \notin {"ioctl", "vendor", "product", "noitem"} }

\* a transport is followed with /dev holding the one node it may be opened on
InitTransport ==
    /\ \E ks \in [1..1 -> TransportKinds] : devdir = Listing(ks)
    /\ InitCommon

SpecTransport == InitTransport /\ [][NextTransport]_vars

(* ---------------------- what a healthy device reports -------------------- *)
\* the record a healthy node is to be listed with (vendor "Yu", product
\* "K" U+00E9, usage page 0xF1D0, usage 1; and "", "A", 1, 6)
ExpectedRecord(nd) ==
    IF nd.hw = Token THEN
        [ path |-> DevDir \o <<"/">> \o nd.name,
          vendor_id |-> 4176, vendor_string |-> <<89, 117>>,
          product_id |-> 1026, product_string |-> <<75, 233>>,
          usage_page |-> 61904, usage |-> 1 ]
    ELSE
        [ path |-> DevDir \o <<"/">> \o nd.name,
          vendor_id |-> 1, vendor_string |-> <<>>,
          product_id |-> 65535, product_string |-> <<65>>,
          usage_page |-> 1, usage |-> 6 ]

IsCandidate(nd) == Len(nd.name) >= 4 /\ SubSeq(nd.name, 1, 4) = UhidStem
IsHealthy(nd) == IsCandidate(nd) /\ nd.fault = "none"

\* the records of the healthy candidates of a listing, in listing order
RECURSIVE ExpectedYield(_)
ExpectedYield(l) ==
    IF l = <<>> THEN <<>>
    ELSE (IF IsHealthy(Head(l)) THEN <<ExpectedRecord(Head(l))>> ELSE <<>>)
         \o ExpectedYield(Tail(l))

\* the faults of a single probe that enumeration is to survive
ProbeFaults == {"open", "ioctl", "vendor", "product", "nordesc", "noparse",
                "itemerr"}

\* the positions of the candidates with a probe fault
FaultyAt == { i \in 1..Len(devdir) :
                IsCandidate(devdir[i]) /\ devdir[i].fault \in ProbeFaults }

\* every candidate is healthy but exactly one, which has a probe fault
OneProbeFault ==
    /\ Cardinality(FaultyAt) = 1
    /\ \A i \in 1..Len(devdir) :
          IsCandidate(devdir[i]) => devdir[i].fault \in ProbeFaults \cup {"none"}

\* the generator has been started
Started == epc # "idle"

(* ------------------------------- claims --------------------------------- *)
\* C1: Enumerate never raises: with a fault in the probe of exactly one
\* candidate the iteration ends without an exception, and the records
\* yielded are exactly those of the other candidates, correctly populated.
C1_EnumerateNeverRaises ==
    OneProbeFault =>
        /\ epc # "raised"
        /\ eexc = "none"
        /\ epc = "done" => yielded = ExpectedYield(devdir)

\* C2: when the constructor opened the node and the descriptor
\* interpretation then failed, the failure reaches the caller and the handle
\* opened by the constructor is closed again.
C2_FailedOpenClosesHandle ==
    (tpc = "failed" /\ CanOpen(tpath)) =>
        /\ texc # "none"
        /\ \A h \in openFds : h.owner # "transport"

\* C3: every parser context created by hid_start_parse is disposed
\* (hid_end_parse) exactly once before ReadReportDescriptor returns or raises.
C3_ParserDisposedOnce ==
    \A k \in 1..Len(rrdLog) :
        (rrdLog[k].hw.rdesc /\ rrdLog[k].hw.parse) =>
            Count(rrdLog[k].res.calls, "hid_end_parse") = 1

\* C4: a report descriptor that was retrieved is disposed exactly once, as
\* the last native call before ReadReportDescriptor returns or raises
\* (parse-start failure, first-item failure, success); when none was
\* retrieved, hid_dispose_report_desc is not called.
C4_DescriptorDisposedOnce ==
    \A k \in 1..Len(rrdLog) :
        LET c == rrdLog[k].res.calls
        IN /\ Count(c, "hid_get_report_desc") = 1
           /\ Count(c, "hid_dispose_report_desc")
                 = (IF rrdLog[k].hw.rdesc THEN 1 ELSE 0)
           /\ rrdLog[k].hw.rdesc => c[Len(c)] = "hid_dispose_report_desc"

\* C4 witness: a call that succeeded and a call that failed on its first
\* item have both been made, each with a descriptor to dispose of.
C4_Witness ==
    /\ \E k \in 1..Len(rrdLog) : rrdLog[k].res.exc = "none"
    /\ \E k \in 1..Len(rrdLog) :
          /\ rrdLog[k].hw.itemRes < 0
          /\ rrdLog[k].res.exc # "none"
          /\ Count(rrdLog[k].res.calls, "hid_get_item") = 1

\* C5: the handle of a transport is released exactly once when the
\* transport is no longer needed.
C5_HandleReleasedOnce ==
    tpc = "dropped" =>
        /\ \A h \in openFds : h.fd # tdev
        /\ Cardinality({ k \in 1..Len(closed) : closed[k].fd = tdev }) = 1

\* C6: when the parser has no item for the descriptor (hid_get_item
\* returns 0) ReadReportDescriptor fails and sets no usage_page/usage.
C6_NoItemFails ==
    \A k \in 1..Len(rrdLog) :
        (rrdLog[k].hw.rdesc /\ rrdLog[k].hw.parse /\ rrdLog[k].hw.itemRes = 0) =>
            /\ rrdLog[k].res.exc # "none"
            /\ rrdLog[k].res.desc.usage_page = None
            /\ rrdLog[k].res.desc.usage = None

\* C7: the constructor on a path that cannot be opened fails with the error
\* of the failed open (OSError, not the error of a descriptor failure);
\* no transport results, ReadReportDescriptor is not called, no handle is
\* open.
C7_OpenFailureIsTyped ==
    (tpath # NonePath /\ ~CanOpen(tpath)) =>
        /\ tpc = "failed"
        /\ texc = "OSError"
        /\ texc # RaiseError
        /\ rrdLog = <<>>
        /\ openFds = {}
        /\ tdev = 0

\* C7 witness: the constructor has failed on a path that names no node.
C7_Witness ==
    /\ tpath = NoSuchPath
    /\ NodesAt(tpath) = {}
    /\ tpc = "failed"

\* C8: at most one probe handle is open at any moment, and none is open
\* when the generator is anywhere but inside the with statement: the handle
\* of a candidate is closed before the next candidate is opened, whether
\* the probe succeeded, the ioctl failed or the interpretation failed.
C8_OneProbeHandle ==
    /\ Cardinality({ h \in openFds : h.owner = "probe" }) <= 1
    /\ epc # "opened" => (openFds = {} /\ ef = 0)
    /\ epc = "opened" => openFds = { [fd |-> ef,
                                       path |-> PathJoin(DevDir, elist[eidx]),
                                       owner |-> "probe"] }

\* C8 witness: a candidate is open after the handles of a candidate whose
\* ioctl failed and of one that was probed successfully have been closed.
C8_Witness ==
    /\ epc = "opened"
    /\ Len(closed) >= 2
    /\ Len(yielded) >= 1
    /\ \E i \in 1..(eidx - 1) : devdir[i].fault = "ioctl"

\* C9: a candidate whose open fails is skipped without an error and the
\* scan goes on with the next candidate: the failed open never ends the
\* generator, yields no record, and every later healthy candidate the scan
\* has passed has been yielded.
C9_OpenFailureSkipped ==
    \A i \in 1..Len(devdir) :
        (Started /\ IsCandidate(devdir[i]) /\ devdir[i].fault = "open") =>
            /\ eidx = i => (epc = "loop" /\ eexc = "none")
            /\ \A k \in 1..Len(yielded) :
                  yielded[k].path # PathJoin(DevDir, devdir[i].name)
            /\ \A j \in (i + 1)..Len(devdir) :
                  (IsHealthy(devdir[j]) /\ eidx > j) =>
                      \E k \in 1..Len(yielded) :
                          yielded[k] = ExpectedRecord(devdir[j])

\* C9 witness: the scan is complete, an open failed and a later candidate
\* was yielded.
C9_Witness ==
    /\ epc = "done"
    /\ \E i \in 1..Len(devdir) : \E j \in (i + 1)..Len(devdir) :
          /\ IsCandidate(devdir[i]) /\ devdir[i].fault = "open"
          /\ IsHealthy(devdir[j])
          /\ \E k \in 1..Len(yielded) : yielded[k] = ExpectedRecord(devdir[j])

\* C10: after a successful open the two getters return the lengths derived
\* at open time, the same on every call whatever Read and Write calls
\* (successful or failing) come between; the getters make no native call
\* and no I/O; both lengths are >= 0.
C10_LengthsFixed ==
    tpc \in {"open", "dropped"} =>
        /\ tdesc.internal_max_in_report_len = HwAt(tpath).inLen
        /\ tdesc.internal_max_out_report_len = HwAt(tpath).outLen
        /\ lastIn # None => lastIn = HwAt(tpath).inLen
        /\ lastOut # None => lastOut = HwAt(tpath).outLen
        /\ tdesc.internal_max_in_report_len >= 0
        /\ tdesc.internal_max_out_report_len >= 0
        /\ Len(rrdLog) = 1

\* C10 witness: both getters have answered after a Read that returned data
\* and a Write that failed.
C10_Witness ==
    /\ tpc = "open"
    /\ lastIn # None
    /\ lastOut # None
    /\ lastIn # lastOut
    /\ \E k \in 1..Len(oslog) : oslog[k].op = "read" /\ oslog[k].ok
                                /\ Len(oslog[k].data) > 0
    /\ \E k \in 1..Len(oslog) : oslog[k].op = "write" /\ ~oslog[k].ok

(* ------------------- the interpreter over usage values ------------------- *)
\* the byte values the combined usage of the first item is made of
UsageBytes == {0, 1, 128, 208, 241, 255}

\* /dev holds one token whose first item has any combined usage over
\* UsageBytes
InitInterpret ==
    /\ \E u \in [1..4 -> UsageBytes] :
          devdir = << [name |-> DevName(UhidStem, 0),
                       hw |-> [Token EXCEPT !.itemUsage = u],
                       fault |-> "none"] >>
    /\ InitCommon

NextInterpret == \E path \in OpenPaths : Open(path)

SpecInterpret == InitInterpret /\ [][NextInterpret]_vars

\* C11: for every 32-bit combined usage c of the first parsed item the
\* interpreter sets usage_page to the high 16 bits of c and usage to the low
\* 16 bits; both lie in 0..65535 and put together again they give c.
C11_UsageSplit ==
    \A k \in 1..Len(rrdLog) :
        LET c == rrdLog[k].hw.itemUsage
            d == rrdLog[k].res.desc
        IN (rrdLog[k].res.exc = "none" /\ rrdLog[k].hw.itemRes > 0) =>
              /\ d.usage_page = c[1] * 256 + c[2]
              /\ d.usage = c[3] * 256 + c[4]
              /\ d.usage_page \in 0..65535
              /\ d.usage \in 0..65535
              /\ << d.usage_page \div 256, d.usage_page % 256,
                    d.usage \div 256, d.usage % 256 >> = c

\* C11 witness: the interpreter has split 0xF1D0FF80.
C11_Witness ==
    /\ tpc = "open"
    /\ rrdLog # <<>>
    /\ rrdLog[1].hw.itemUsage = <<241, 208, 255, 128>>
    /\ tdesc.usage_page = 61904
    /\ tdesc.usage = 65408

(* --------------------------- Read and Write ------------------------------ *)
\* the last OS operation on a handle
LastOp == oslog[Len(oslog)]

\* C12: Read asks the handle for exactly InputReportLength() bytes and
\* returns the bytes delivered, in order and unpadded: never more than
\* InputReportLength(), that many when the device delivers a full report,
\* fewer only when the device delivers fewer.
C12_ReadReturnsDelivered ==
    /\ \A k \in 1..Len(oslog) :
          oslog[k].op = "read" =>
              oslog[k].n = tdesc.internal_max_in_report_len
    /\ (oslog # <<>> /\ LastOp.op = "read" /\ LastOp.ok) =>
          /\ lastRead = LastOp.data
          /\ Len(lastRead) <= tdesc.internal_max_in_report_len
          /\ Len(LastOp.data) = tdesc.internal_max_in_report_len
                => Len(lastRead) = tdesc.internal_max_in_report_len

\* C12 witness: after a Write, a Read returned a full report of two
\* different bytes.
C12_Witness ==
    /\ Len(oslog) = 2
    /\ oslog[1].op = "write" /\ oslog[1].ok
    /\ LastOp.op = "read" /\ LastOp.ok
    /\ tdesc.internal_max_in_report_len = 2
    /\ lastRead = <<200, 7>>

\* C13: Write hands the handle exactly the bytes of the caller's packet,
\* the same in content, order and length, whatever the length of the packet
\* against OutputReportLength(): every Write of a byte sequence issues the
\* os.write of that sequence on the transport's handle (the packet is not
\* padded, cut or rejected), and a Write that returns without error has
\* passed the whole packet to that os.write.
C13_WritePassesThrough ==
    [][ ( /\ Len(apilog') = Len(apilog) + 1
          /\ apilog'[Len(apilog')].call = "Write"
          /\ IsBytes(apilog'[Len(apilog')].arg) )
        => ( /\ oslog' = Append(oslog,
                     [op |-> "write", fd |-> tdev,
                      data |-> apilog'[Len(apilog')].arg,
                      n |-> Len(apilog'[Len(apilog')].arg),
                      ok |-> (texc' = "none")])
             /\ texc' \in {"none", "OSError"} ) ]_vars

\* C14: when the OS read or write fails, the call ends with that OSError,
\* returns nothing, issues no further OS call, and leaves the handle, the
\* descriptor and the set of open handles as they were.
C14_IOFailurePropagates ==
    [][ ( /\ Len(apilog') = Len(apilog) + 1
          /\ Len(oslog') > Len(oslog)
          /\ ~oslog'[Len(oslog) + 1].ok )
        => ( /\ texc' = "OSError"
             /\ lastRead' = lastRead
             /\ Len(oslog') = Len(oslog) + 1
             /\ tdev' = tdev
             /\ tdesc' = tdesc
             /\ tpc' = tpc
             /\ openFds' = openFds
             /\ rrdLog' = rrdLog ) ]_vars

\* C14 witness: a Read has failed after a Read that returned data, and a
\* Write has failed.
C14_Witness ==
    /\ Len(oslog) = 2
    /\ oslog[1].op = "read" /\ oslog[1].ok /\ oslog[1].data # <<>>
    /\ LastOp.op = "read" /\ ~LastOp.ok
    /\ texc = "OSError"
    /\ lastRead = oslog[1].data

\* the calls made so far were all given what the interface takes: Write a
\* sequence of bytes
ByteCallsOnly ==
    \A k \in 1..Len(apilog) :
        apilog[k].call = "Write" => IsBytes(apilog[k].arg)

\* C17: no buffering or batching: the OS operations on the handle are, one
\* for one and in the same order, the Read and Write calls made, each on the
\* transport's own handle.
C17_OneOsCallPerCall ==
    ByteCallsOnly =>
        /\ Len(oslog) = Len(apilog)
        /\ \A k \in 1..Len(oslog) :
              /\ oslog[k].op = (IF apilog[k].call = "Read" THEN "read"
                                ELSE "write")
              /\ oslog[k].fd = tdev
              /\ \E h \in openFds : h.fd = tdev /\ h.owner = "transport"

(* ------------------------- Enumerate, called again ----------------------- *)
\* number of Enumerate() calls followed
MaxCalls == 2
\* number of nodes in /dev while calls are repeated
MaxScanDevs == 2

\* the kinds of node plugged and unplugged between calls
RescanKinds ==
    { k \in NodeKinds :
        \/ k.stem = UhidStem /\ k.hw \in {Token, Faulty["open"], Faulty["nordesc"]}
        \/ k.stem = <<"t", "t", "y", "U">> }

\* Enumerate() is called again, the earlier generator being finished, dead
\* or left suspended at its yield: a new generator, which has run no code
\* yet; closed and rrdLog start over with it
EnumCall ==
    /\ epc \in {"done", "raised", "yield"}
    /\ ecalls < MaxCalls
    /\ ecalls' = ecalls + 1
    /\ prevdir' = devdir
    /\ epc' = "idle"
    /\ elist' = <<>>
    /\ eidx' = 0
    /\ yielded' = <<>>
    /\ eexc' = "none"
    /\ closed' = <<>>
    /\ rrdLog' = <<>>
    /\ UNCHANGED << devdir, openFds, ef, tvars >>

\* a node appears in /dev before the generator lists it
Plug(k) ==
    /\ epc = "idle"
    /\ Len(devdir) < MaxScanDevs
    /\ devdir' = Append(devdir, [name |-> DevName(k.stem, Len(devdir)),
                                 hw |-> k.hw, fault |-> k.fault])
    /\ UNCHANGED << hvars, openFds, closed, rrdLog, evars, tvars >>

\* the last node of /dev disappears before the generator lists it
Unplug ==
    /\ epc = "idle"
    /\ devdir # <<>>
    /\ devdir' = SubSeq(devdir, 1, Len(devdir) - 1)
    /\ UNCHANGED << hvars, openFds, closed, rrdLog, evars, tvars >>

NextRescan ==
    \/ NextEnum
    \/ EnumCall
    \/ \E k \in RescanKinds : Plug(k)
    \/ Unplug

InitRescan ==
    /\ \E n \in 0..MaxScanDevs : \E ks \in [1..n -> RescanKinds] :
          devdir = Listing(ks)
    /\ InitCommon

SpecRescan == InitRescan /\ [][NextRescan]_vars

\* the names of a listing
Names(l) == [i \in 1..Len(l) |-> l[i].name]

\* how far a running generator has got
Progress == 3 * eidx + (IF epc = "loop" THEN 0 ELSE IF epc = "opened" THEN 1
                        ELSE 2)

\* C15: Enumerate is restartable, not resumable: each call scans /dev as it
\* is at the time of that scan, whatever an earlier call saw, so its results
\* are those of the nodes then present; and a scan is finite: every step of
\* the generator takes it further through the listing, which it never
\* leaves.
C15_Restartable ==
    /\ [] ( /\ epc # "idle" => elist = Names(devdir)
            /\ epc # "idle" => (eidx >= 1 /\ eidx <= Len(elist) + 1)
            /\ epc = "done" =>
                  (eidx = Len(elist) + 1 /\ yielded = ExpectedYield(devdir)) )
    /\ [][ (epc \in {"loop", "opened", "yield"} /\ epc' # "idle"
            /\ << epc, eidx >>' # << epc, eidx >>)
           => (epc' \in {"done", "raised"} \/ Progress' > Progress) ]_vars

\* C15 witness: the first call saw a token at uhid0; it was unplugged and
\* one plugged at uhid1, and the second call has yielded that one only.
C15_Witness ==
    /\ ecalls = 2
    /\ epc = "done"
    /\ Len(prevdir) = 1 /\ IsHealthy(prevdir[1])
    /\ Len(devdir) = 2 /\ ~IsCandidate(devdir[1]) /\ IsHealthy(devdir[2])
    /\ yielded = << ExpectedRecord(devdir[2]) >>

(* ------------------------- what Enumerate yields ------------------------- *)
\* the record of a candidate whose probe ends normally, as its metadata and
\* its descriptor report it; a descriptor without items is interpreted with
\* a zero usage
ReportedRecord(nd) ==
    IF nd.fault = "noitem"
    THEN [ path |-> DevDir \o <<"/">> \o nd.name,
           vendor_id |-> 4176, vendor_string |-> <<89, 117>>,
           product_id |-> 1026, product_string |-> <<75, 233>>,
           usage_page |-> 0, usage |-> 0 ]
    ELSE ExpectedRecord(nd)

\* the records of the candidates of a listing whose probe ends normally
RECURSIVE ReportedYield(_)
ReportedYield(l) ==
    IF l = <<>> THEN <<>>
    ELSE (IF IsCandidate(Head(l)) /\ Head(l).fault \in {"none", "noitem"}
          THEN <<ReportedRecord(Head(l))>> ELSE <<>>)
         \o ReportedYield(Tail(l))

\* the number of nodes of the listing the generator is through with
Passed ==
    IF epc = "idle" THEN 0
    ELSE IF epc = "done" THEN Len(devdir)
    ELSE IF epc = "yield" THEN eidx
    ELSE eidx - 1

\* C16: Enumerate yields one record for each node named uhid* whose probe
\* succeeds and none for any other node, in listing order; the record has
\* the path of the node under /dev and the ids, strings and usage reported
\* for that device; a node without the prefix is never opened.
C16_YieldsCandidates ==
    /\ yielded = ReportedYield(SubSeq(devdir, 1, Passed))
    /\ epc \in {"opened", "yield", "raised"} => IsCandidate(devdir[eidx])
    /\ \A h \in openFds : \E i \in 1..Len(devdir) :
          IsCandidate(devdir[i]) /\ h.path = DevDir \o <<"/">> \o devdir[i].name

\* C16 witness: the scan of uhid0 (the token 0x1050/0x0402), a node that
\* is not uhid*, and uhid2 has ended with the two records.
C16_Witness ==
    /\ epc = "done"
    /\ Len(devdir) = 3
    /\ devdir[1].hw = Token /\ IsCandidate(devdir[1])
    /\ ~IsCandidate(devdir[2])
    /\ devdir[3].hw = Keyboard /\ IsCandidate(devdir[3])
    /\ Len(yielded) = 2
    /\ yielded[1].vendor_id = 4176 /\ yielded[1].usage_page = 61904
    /\ yielded[2].usage = 6

\* C18: while the generator is suspended at its yield no probe handle is
\* open: the handle of the candidate just yielded has been closed; so a
\* consumer that stops there, or calls Enumerate again, leaves none open.
C18_NoHandleAtYield ==
    /\ epc = "yield" =>
          /\ \A h \in openFds : h.owner # "probe"
          /\ ef = 0
          /\ closed # <<>>
          /\ closed[Len(closed)].owner = "probe"
          /\ Len(closed) >= Len(yielded)
    /\ epc = "idle" => openFds = {}

\* C18 witness: the generator is suspended part-way through the listing.
C18_Witness ==
    /\ epc = "yield"
    /\ eidx < Len(elist)
    /\ Len(yielded) = 1
    /\ openFds = {}

\* C19: ReadReportDescriptor stores usage_page and usage only when it
\* returns normally; it stores nothing when it fails before the parse pass
\* (no report descriptor, or hid_start_parse failed); the report lengths
\* are stored before the first item is fetched, so a first-item failure
\* leaves the lengths set and the usage unset; no other attribute is written.
C19_DescriptorWrites ==
    \A k \in 1..Len(rrdLog) :
        LET hw == rrdLog[k].hw
            a == rrdLog[k].arg
            d == rrdLog[k].res.desc
            failed == rrdLog[k].res.exc # "none"
        IN /\ [d EXCEPT !.usage_page = None, !.usage = None,
                         !.internal_max_in_report_len = 0,
                         !.internal_max_out_report_len = 0]
                = [a EXCEPT !.usage_page = None, !.usage = None,
                            !.internal_max_in_report_len = 0,
                            !.internal_max_out_report_len = 0]
           /\ failed => (d.usage_page = a.usage_page /\ d.usage = a.usage)
           /\ ~failed => (d.usage_page \in 0..65535 /\ d.usage \in 0..65535)
           /\ (~hw.rdesc \/ ~hw.parse) => (failed /\ d = a)
           /\ (hw.rdesc /\ hw.parse) =>
                 /\ d.internal_max_in_report_len = hw.inLen
                 /\ d.internal_max_out_report_len = hw.outLen

\* C19 witness: a call has failed on its first item with the lengths stored
\* and the usage still unset.
C19_Witness ==
    \E k \in 1..Len(rrdLog) :
        /\ rrdLog[k].hw.rdesc /\ rrdLog[k].hw.parse /\ rrdLog[k].hw.itemRes < 0
        /\ rrdLog[k].res.exc # "none"
        /\ rrdLog[k].arg.internal_max_in_report_len = 0
        /\ rrdLog[k].res.desc.internal_max_in_report_len = 2
        /\ rrdLog[k].res.desc.internal_max_out_report_len = 1
        /\ rrdLog[k].res.desc.usage_page = None
        /\ rrdLog[k].res.desc.usage = None

====
